---------------------------- MODULE Spec2Model ----------------------------
(***************************************************************************)
(* Stock and price synchronisation of a watch inventory feed to the Ozon   *)
(* seller API (src/seller.py) and to Yandex.Market (src/market.py).        *)
(*                                                                         *)
(* Text values whose characters the code inspects (quantity tokens, price  *)
(* strings) are sequences of one-character strings; offer ids, which the   *)
(* code only compares, are plain strings.                                  *)
(***************************************************************************)
EXTENDS Integers, Sequences, FiniteSets, TLC

VARIABLES
    prog,            \* which script runs: "seller" or "market"
    pc,              \* position in main()
    channel,         \* channel being processed: "OZON", "FBS" or "DBS"
    server,          \* listing endpoint's catalog, per channel
    watch_remnants,  \* inventory records returned by download_stock()
    cursor,          \* last_id / page token sent with the next listing call
    product_list,    \* items accumulated by get_offer_ids
    offer_ids,       \* main()'s offer_ids list (mutated by create_stocks)
    stocks,          \* main()'s stocks payload
    prices,          \* main()'s prices payload
    k,               \* index of the next chunk of the running upload loop
    calls,           \* log of update calls issued: [ep, channel, payload, ok]
    pending,         \* coroutine objects created and never awaited
    outcome,         \* "running", "done", a message printed by an except
                     \* clause, or "escaped"
    catalogOf,       \* history: offer ids as returned by get_offer_ids
    handed,          \* history: [channel, ids] given to create_prices
    listing,         \* history: listing calls issued, with their responses
    fnArgs,          \* function-level check: the arguments drawn
    fnRes            \* function-level check: the call made and its result

vars == <<prog, pc, channel, server, watch_remnants, cursor, product_list,
          offer_ids, stocks, prices, k, calls, pending, outcome, catalogOf,
          handed, listing, fnArgs, fnRes>>

mainVars == <<prog, pc, channel, server, watch_remnants, cursor, product_list,
              offer_ids, stocks, prices, k, calls, pending, outcome,
              catalogOf, handed, listing>>

fnVars == <<fnArgs, fnRes>>

(***************************************************************************)
(* Bounds of the model.                                                    *)
(***************************************************************************)
\* longest catalog the listing endpoint holds for a channel
MaxCatalog == 3
\* most inventory records in the feed
MaxInv == 2
\* items per listing page (stands for "limit": 1000 / 200)
PageLimit == 2
\* items per stock upload call (stands for 100 / 2000)
StockBatch == 2
\* items per price upload call (stands for 900 / 500)
PriceBatch == 1
\* longest list given to divide in the function-level check
MaxLen == 4
\* chunk sizes given to divide range over -MaxN..MaxN
MaxN == 3

(***************************************************************************)
(* Generic helpers.                                                        *)
(***************************************************************************)
SeqsUpTo(S, n) == UNION {[1..m -> S] : m \in 0..n}

Min(a, b) == IF a < b THEN a ELSE b

Max(a, b) == IF a > b THEN a ELSE b

\* x in lst (Python's `in` on a list)
In(x, lst) == \E i \in 1..Len(lst) : lst[i] = x

\* number of occurrences of x in lst
RECURSIVE Count(_, _)
Count(lst, x) ==
    IF lst = <<>> THEN 0
    ELSE (IF Head(lst) = x THEN 1 ELSE 0) + Count(Tail(lst), x)

\* list.remove(x): drops the first occurrence of x
RECURSIVE ListRemove(_, _)
ListRemove(lst, x) ==
    IF lst = <<>> THEN <<>>
    ELSE IF Head(lst) = x THEN Tail(lst)
    ELSE <<Head(lst)>> \o ListRemove(Tail(lst), x)

\* lst[i:j] for 0 <= i <= j (Python slice, clamped to the list)
Slice(lst, i, j) == SubSeq(lst, Min(i, Len(lst)) + 1, Min(j, Len(lst)))

RECURSIVE Flatten(_)
Flatten(ss) == IF ss = <<>> THEN <<>> ELSE Head(ss) \o Flatten(Tail(ss))

(***************************************************************************)
(* Text: digits, int(), price_conversion.                                  *)
(***************************************************************************)
Digits == {"0", "1", "2", "3", "4", "5", "6", "7", "8", "9"}

DigitVal(c) ==
    CASE c = "0" -> 0 [] c = "1" -> 1 [] c = "2" -> 2 [] c = "3" -> 3
      [] c = "4" -> 4 [] c = "5" -> 5 [] c = "6" -> 6 [] c = "7" -> 7
      [] c = "8" -> 8 [] c = "9" -> 9

RECURSIVE Strip(_)
Strip(s) ==
    IF s = <<>> THEN s
    ELSE IF Head(s) = " " THEN Strip(Tail(s))
    ELSE IF s[Len(s)] = " " THEN Strip(SubSeq(s, 1, Len(s) - 1))
    ELSE s

\* the digits of an int() literal, after whitespace and an optional sign
IntBody(s) ==
    LET t == Strip(s)
    IN IF t # <<>> /\ t[1] \in {"+", "-"} THEN Tail(t) ELSE t

\* whether int(s) accepts the text s (digit-group underscores, which int()
\* also accepts, do not occur in the texts drawn)
IntParses(s) ==
    /\ IntBody(s) # <<>>
    /\ \A i \in 1..Len(IntBody(s)) : IntBody(s)[i] \in Digits

RECURSIVE DigitsValue(_)
DigitsValue(ds) ==
    IF ds = <<>> THEN 0
    ELSE 10 * DigitsValue(SubSeq(ds, 1, Len(ds) - 1)) + DigitVal(ds[Len(ds)])

\* int(s) for a text s that int() accepts
IntValue(s) ==
    LET t == Strip(s)
    IN IF t[1] = "-" THEN 0 - DigitsValue(IntBody(s)) ELSE DigitsValue(IntBody(s))

\* price.split(".")[0]
RECURSIVE BeforeDot(_)
BeforeDot(s) ==
    IF s = <<>> \/ Head(s) = "." THEN <<>>
    ELSE <<Head(s)>> \o BeforeDot(Tail(s))

IsDigit(c) == c \in Digits

price_conversion(price) == SelectSeq(BeforeDot(price), IsDigit)

(***************************************************************************)
(* Reconcilers.  An inventory record is [Kod, Kolichestvo, Tsena] (the     *)
(* feed's columns "Код", "Количество", "Цена").  A call's result is        *)
(* [err, out, offer_ids]: the exception raised ("none" when it returns),   *)
(* the list returned, and the caller's offer_ids list as the call leaves   *)
(* it (the list is passed by reference).                                   *)
(***************************************************************************)
\* whether resolving the quantity text raises: int() rejects it
StockRaises(count) ==
    /\ count # <<">", "1", "0">>
    /\ count # <<"1">>
    /\ ~IntParses(count)

\* ResolveStock without the branch for "1"
ResolveStock_NoReserve(count) ==
    IF count = <<">", "1", "0">> THEN 100 ELSE IntValue(count)

\* the stock a matched record's quantity text resolves to
ResolveStock(count) ==
    IF count = <<">", "1", "0">> THEN 100
    ELSE IF count = <<"1">> THEN 0
    ELSE IntValue(count)

SellerStockEntry(offer_id, stock) == [offer_id |-> offer_id, stock |-> stock]

RECURSIVE SellerStocksLoop(_, _, _, _)
SellerStocksLoop(remnants, i, acc, ids) ==
    IF i > Len(remnants)
    THEN [err |-> "none",
          out |-> acc \o [j \in 1..Len(ids) |-> SellerStockEntry(ids[j], 0)],
          offer_ids |-> ids]
    ELSE LET watch == remnants[i]
         IN IF In(watch.Kod, ids)
            THEN IF StockRaises(watch.Kolichestvo)
                 THEN [err |-> "ValueError", out |-> <<>>, offer_ids |-> ids]
                 ELSE SellerStocksLoop(remnants, i + 1,
                          Append(acc, SellerStockEntry(watch.Kod,
                                          ResolveStock(watch.Kolichestvo))),
                          ListRemove(ids, watch.Kod))
            ELSE SellerStocksLoop(remnants, i + 1, acc, ids)

\* create_stocks without offer_ids.remove(...)
RECURSIVE SellerStocksLoop_NoRemove(_, _, _, _)
SellerStocksLoop_NoRemove(remnants, i, acc, ids) ==
    IF i > Len(remnants)
    THEN [err |-> "none",
          out |-> acc \o [j \in 1..Len(ids) |-> SellerStockEntry(ids[j], 0)],
          offer_ids |-> ids]
    ELSE IF In(remnants[i].Kod, ids)
    THEN IF StockRaises(remnants[i].Kolichestvo)
         THEN [err |-> "ValueError", out |-> <<>>, offer_ids |-> ids]
         ELSE SellerStocksLoop_NoRemove(remnants, i + 1,
                  Append(acc, SellerStockEntry(remnants[i].Kod,
                                  ResolveStock(remnants[i].Kolichestvo))), ids)
    ELSE SellerStocksLoop_NoRemove(remnants, i + 1, acc, ids)

seller_create_stocks_NoRemove(remnants, ids) ==
    SellerStocksLoop_NoRemove(remnants, 1, <<>>, ids)

seller_create_stocks(remnants, ids) == SellerStocksLoop(remnants, 1, <<>>, ids)

MarketStockEntry(sku, warehouse_id, stock, date) ==
    [sku |-> sku, warehouseId |-> warehouse_id,
     items |-> <<[count |-> stock, type |-> "FIT", updatedAt |-> date]>>]

RECURSIVE MarketStocksLoop(_, _, _, _, _, _)
MarketStocksLoop(remnants, i, acc, ids, warehouse_id, date) ==
    IF i > Len(remnants)
    THEN [err |-> "none",
          out |-> acc \o [j \in 1..Len(ids) |->
                             MarketStockEntry(ids[j], warehouse_id, 0, date)],
          offer_ids |-> ids]
    ELSE LET watch == remnants[i]
         IN IF In(watch.Kod, ids)
            THEN IF StockRaises(watch.Kolichestvo)
                 THEN [err |-> "ValueError", out |-> <<>>, offer_ids |-> ids]
                 ELSE MarketStocksLoop(remnants, i + 1,
                          Append(acc, MarketStockEntry(watch.Kod, warehouse_id,
                                          ResolveStock(watch.Kolichestvo), date)),
                          ListRemove(ids, watch.Kod), warehouse_id, date)
            ELSE MarketStocksLoop(remnants, i + 1, acc, ids, warehouse_id, date)

\* create_stocks (market.py) without offer_ids.remove: a code stays known
\* after a record has matched it
RECURSIVE MarketStocksLoop_NoRemove(_, _, _, _, _, _)
MarketStocksLoop_NoRemove(remnants, i, acc, ids, warehouse_id, date) ==
    IF i > Len(remnants)
    THEN [err |-> "none",
          out |-> acc \o [j \in 1..Len(ids) |->
                             MarketStockEntry(ids[j], warehouse_id, 0, date)],
          offer_ids |-> ids]
    ELSE LET watch == remnants[i]
         IN IF In(watch.Kod, ids)
            THEN IF StockRaises(watch.Kolichestvo)
                 THEN [err |-> "ValueError", out |-> <<>>, offer_ids |-> ids]
                 ELSE MarketStocksLoop_NoRemove(remnants, i + 1,
                          Append(acc, MarketStockEntry(watch.Kod, warehouse_id,
                                          ResolveStock(watch.Kolichestvo), date)),
                          ids, warehouse_id, date)
            ELSE MarketStocksLoop_NoRemove(remnants, i + 1, acc, ids, warehouse_id, date)

market_create_stocks_NoRemove(remnants, ids, warehouse_id, date) ==
    MarketStocksLoop_NoRemove(remnants, 1, <<>>, ids, warehouse_id, date)

market_create_stocks(remnants, ids, warehouse_id, date) ==
    MarketStocksLoop(remnants, 1, <<>>, ids, warehouse_id, date)

SellerPriceEntry(watch) ==
    [auto_action_enabled |-> "UNKNOWN", currency_code |-> "RUB",
     offer_id |-> watch.Kod, old_price |-> <<"0">>,
     price |-> price_conversion(watch.Tsena)]

RECURSIVE SellerPricesLoop(_, _, _, _)
SellerPricesLoop(remnants, i, acc, ids) ==
    IF i > Len(remnants)
    THEN [err |-> "none", out |-> acc, offer_ids |-> ids]
    ELSE IF In(remnants[i].Kod, ids)
    THEN SellerPricesLoop(remnants, i + 1,
                          Append(acc, SellerPriceEntry(remnants[i])), ids)
    ELSE SellerPricesLoop(remnants, i + 1, acc, ids)

\* create_prices taking matched ids out of the list, as create_stocks does
RECURSIVE SellerPricesLoop_Consuming(_, _, _, _)
SellerPricesLoop_Consuming(remnants, i, acc, ids) ==
    IF i > Len(remnants)
    THEN [err |-> "none", out |-> acc, offer_ids |-> ids]
    ELSE IF In(remnants[i].Kod, ids)
    THEN SellerPricesLoop_Consuming(remnants, i + 1,
             Append(acc, SellerPriceEntry(remnants[i])),
             ListRemove(ids, remnants[i].Kod))
    ELSE SellerPricesLoop_Consuming(remnants, i + 1, acc, ids)

seller_create_prices_Consuming(remnants, ids) ==
    SellerPricesLoop_Consuming(remnants, 1, <<>>, ids)

seller_create_prices(remnants, ids) == SellerPricesLoop(remnants, 1, <<>>, ids)

\* int(price_conversion(...)): int("") raises ValueError
MarketPriceEntry(watch) ==
    [id |-> watch.Kod,
     price |-> [value |-> DigitsValue(price_conversion(watch.Tsena)),
                currencyId |-> "RUR"]]

RECURSIVE MarketPricesLoop(_, _, _, _)
MarketPricesLoop(remnants, i, acc, ids) ==
    IF i > Len(remnants)
    THEN [err |-> "none", out |-> acc, offer_ids |-> ids]
    ELSE IF In(remnants[i].Kod, ids)
    THEN IF price_conversion(remnants[i].Tsena) = <<>>
         THEN [err |-> "ValueError", out |-> <<>>, offer_ids |-> ids]
         ELSE MarketPricesLoop(remnants, i + 1,
                               Append(acc, MarketPriceEntry(remnants[i])), ids)
    ELSE MarketPricesLoop(remnants, i + 1, acc, ids)

market_create_prices(remnants, ids) == MarketPricesLoop(remnants, 1, <<>>, ids)

(***************************************************************************)
(* divide: a generator over range(0, len(lst), n).  Consuming it, as       *)
(* list(divide(lst, n)) does, gives [err, out]: range() raises ValueError  *)
(* for a zero step before any chunk is produced, and is empty for a        *)
(* negative step when len(lst) >= 0.                                       *)
(***************************************************************************)
\* the values of range(start, stop, step), step # 0
RECURSIVE Range(_, _, _)
Range(start, stop, step) ==
    IF (step > 0 /\ start < stop) \/ (step < 0 /\ start > stop)
    THEN <<start>> \o Range(start + step, stop, step)
    ELSE <<>>

\* divide with the slice one item short: lst[i : i + n - 1]
divide_ShortSlice(lst, n) ==
    IF n = 0
    THEN [err |-> "ValueError", out |-> <<>>]
    ELSE LET r == Range(0, Len(lst), n)
         IN [err |-> "none",
             out |-> [j \in 1..Len(r) |-> Slice(lst, r[j], Max(r[j], r[j] + n - 1))]]

divide(lst, n) ==
    IF n = 0
    THEN [err |-> "ValueError", out |-> <<>>]
    ELSE LET r == Range(0, Len(lst), n)
         IN [err |-> "none",
             out |-> [j \in 1..Len(r) |-> Slice(lst, r[j], r[j] + n)]]

(***************************************************************************)
(* Inputs.                                                                 *)
(***************************************************************************)
Ids == {"A1", "B2"}

\* what a listing endpoint may hold for a channel
Catalogs == SeqsUpTo(Ids, MaxCatalog)

DefaultPrice == <<"5", "'", "9", "9", "0", ".", "0", "0", " ", "r">>

\* quantity texts of the feed: ">10", "1", "0", "10", "-3", "x"
QtyTexts ==
    {<<">", "1", "0">>, <<"1">>, <<"0">>, <<"1", "0">>, <<"-", "3">>, <<"x">>}

\* price texts of the feed: "5'990.00 r", "5'990,60 r", "r."
PriceTexts ==
    {DefaultPrice,
     <<"5", "'", "9", "9", "0", ",", "6", "0", " ", "r">>,
     <<"r", ".">>}

\* records of the function-level checks
FnRecords ==
    {[Kod |-> c, Kolichestvo |-> q, Tsena |-> DefaultPrice] :
        c \in Ids, q \in QtyTexts}
    \cup
    {[Kod |-> c, Kolichestvo |-> <<"1", "0">>, Tsena |-> t] :
        c \in Ids, t \in PriceTexts}

\* records of the feed in runs of main()
MainRecords ==
    {[Kod |-> c, Kolichestvo |-> q, Tsena |-> DefaultPrice] :
        c \in Ids, q \in {<<">", "1", "0">>, <<"x">>}}

ChannelsOf(p) == IF p = "seller" THEN <<"OZON">> ELSE <<"FBS", "DBS">>

ChannelSet(p) == {ChannelsOf(p)[i] : i \in 1..Len(ChannelsOf(p))}

\* WAREHOUSE_FBS_ID / WAREHOUSE_DBS_ID
WarehouseOf(c) == IF c = "FBS" THEN "WH_FBS" ELSE "WH_DBS"

\* datetime.utcnow() of a run, as text
Now == "2024-03-12T10:00:00Z"

\* exceptions a requests call raises
HttpErrors == {"HTTPError", "ConnectionError"}

(***************************************************************************)
(* main(): shared pieces.                                                  *)
(***************************************************************************)
\* the message of the except clause that catches exception e
Handle(e) ==
    CASE e = "ReadTimeout" -> "timeout_message"
      [] e = "ConnectionError" -> "connection_message"
      [] OTHER -> "ERROR_2"

StockChunks == divide(stocks, StockBatch).out

PriceChunks == divide(prices, PriceBatch).out

MainIdle ==
    /\ prog = "none"
    /\ pc = "idle"
    /\ channel = "none"
    /\ server = <<>>
    /\ watch_remnants = <<>>
    /\ cursor = 0
    /\ product_list = <<>>
    /\ offer_ids = <<>>
    /\ stocks = <<>>
    /\ prices = <<>>
    /\ k = 0
    /\ calls = <<>>
    /\ pending = <<>>
    /\ outcome = "idle"
    /\ catalogOf = <<>>
    /\ handed = <<>>
    /\ listing = <<>>

FnIdle ==
    /\ fnArgs = [kind |-> "none"]
    /\ fnRes = [op |-> "none"]

Init ==
    /\ prog \in {"seller", "market"}
    /\ pc = IF prog = "seller" THEN "get_offer_ids" ELSE "download_stock"
    /\ channel = ChannelsOf(prog)[1]
    /\ server \in [ChannelSet(prog) -> Catalogs]
    /\ watch_remnants = <<>>
    /\ cursor = 0
    /\ product_list = <<>>
    /\ offer_ids = <<>>
    /\ stocks = <<>>
    /\ prices = <<>>
    /\ k = 0
    /\ calls = <<>>
    /\ pending = <<>>
    /\ outcome = "running"
    /\ catalogOf = <<>>
    /\ handed = <<>>
    /\ listing = <<>>
    /\ FnIdle

(***************************************************************************)
(* seller.main()                                                           *)
(***************************************************************************)
\* the listing endpoint's answer to a call with cursor c for channel ch:
\* at most PageLimit items from c on, the cursor after them (0: none), the
\* size of the catalog
ListingPage(ch, c) ==
    LET page == Slice(server[ch], c, c + PageLimit)
    IN [items |-> page,
        next |-> IF c + PageLimit < Len(server[ch]) THEN c + PageLimit ELSE 0,
        last_id |-> c + Len(page),
        total |-> Len(server[ch])]

\* SellerGetProductList sending an empty last_id with every call
SellerGetProductList_NoCursor ==
    /\ prog = "seller" /\ pc = "get_offer_ids"
    /\ LET resp == ListingPage(channel, 0)
           items == [j \in 1..Len(resp.items) |-> [offer_id |-> resp.items[j]]]
           list == product_list \o items
           ids == [j \in 1..Len(list) |-> list[j].offer_id]
       IN /\ listing' = Append(listing, [channel |-> channel, cursor |-> 0,
                                         ok |-> TRUE, items |-> resp.items,
                                         next |-> resp.last_id, total |-> resp.total])
          /\ product_list' = list
          /\ cursor' = resp.last_id
          /\ IF resp.total = Len(list)
             THEN /\ offer_ids' = ids
                  /\ catalogOf' = Append(catalogOf, [channel |-> channel, ids |-> ids])
                  /\ pc' = "download_stock"
             ELSE UNCHANGED <<offer_ids, catalogOf, pc>>
          /\ UNCHANGED outcome
    /\ UNCHANGED <<prog, channel, server, watch_remnants, stocks, prices, k,
                   calls, pending, handed, fnVars>>

\* SellerGetProductList with a failed call ending the loop: get_offer_ids
\* returns the offer ids of the pages received so far
SellerGetProductList_Partial ==
    /\ prog = "seller" /\ pc = "get_offer_ids"
    /\ \/ LET ids == [j \in 1..Len(product_list) |-> product_list[j].offer_id]
          IN /\ listing' = Append(listing, [channel |-> channel, cursor |-> cursor,
                                            ok |-> FALSE])
             /\ offer_ids' = ids
             /\ catalogOf' = Append(catalogOf, [channel |-> channel, ids |-> ids])
             /\ pc' = "download_stock"
             /\ UNCHANGED <<cursor, product_list, outcome>>
       \/ LET resp == ListingPage(channel, cursor)
              items == [j \in 1..Len(resp.items) |-> [offer_id |-> resp.items[j]]]
              list == product_list \o items
              ids == [j \in 1..Len(list) |-> list[j].offer_id]
          IN /\ listing' = Append(listing, [channel |-> channel, cursor |-> cursor,
                                            ok |-> TRUE, items |-> resp.items,
                                            next |-> resp.last_id, total |-> resp.total])
             /\ product_list' = list
             /\ cursor' = resp.last_id
             /\ IF resp.total = Len(list)
                THEN /\ offer_ids' = ids
                     /\ catalogOf' = Append(catalogOf, [channel |-> channel, ids |-> ids])
                     /\ pc' = "download_stock"
                ELSE UNCHANGED <<offer_ids, catalogOf, pc>>
             /\ UNCHANGED outcome
    /\ UNCHANGED <<prog, channel, server, watch_remnants, stocks, prices, k,
                   calls, pending, handed, fnVars>>

\* one pass of get_offer_ids' loop: a get_product_list call (last_id sent,
\* items, total and last_id received) and the test total == len(product_list)
SellerGetProductList ==
    /\ prog = "seller" /\ pc = "get_offer_ids"
    /\ \/ \E e \in HttpErrors :
             /\ listing' = Append(listing, [channel |-> channel, cursor |-> cursor,
                                            ok |-> FALSE])
             /\ outcome' = Handle(e)
             /\ pc' = "end"
             /\ UNCHANGED <<cursor, product_list, offer_ids, catalogOf>>
       \/ LET resp == ListingPage(channel, cursor)
              items == [j \in 1..Len(resp.items) |-> [offer_id |-> resp.items[j]]]
              list == product_list \o items
              ids == [j \in 1..Len(list) |-> list[j].offer_id]
          IN /\ listing' = Append(listing, [channel |-> channel, cursor |-> cursor,
                                            ok |-> TRUE, items |-> resp.items,
                                            next |-> resp.last_id, total |-> resp.total])
             /\ product_list' = list
             /\ cursor' = resp.last_id
             /\ IF resp.total = Len(list)
                THEN /\ offer_ids' = ids
                     /\ catalogOf' = Append(catalogOf, [channel |-> channel, ids |-> ids])
                     /\ pc' = "download_stock"
                ELSE UNCHANGED <<offer_ids, catalogOf, pc>>
             /\ UNCHANGED outcome
    /\ UNCHANGED <<prog, channel, server, watch_remnants, stocks, prices, k,
                   calls, pending, handed, fnVars>>

SellerDownloadStock ==
    /\ prog = "seller" /\ pc = "download_stock"
    /\ \/ \E e \in HttpErrors :
             /\ outcome' = Handle(e)
             /\ pc' = "end"
             /\ UNCHANGED watch_remnants
       \/ /\ watch_remnants' \in SeqsUpTo(MainRecords, MaxInv)
          /\ pc' = "create_stocks"
          /\ UNCHANGED outcome
    /\ UNCHANGED <<prog, channel, server, cursor, product_list, offer_ids,
                   stocks, prices, k, calls, pending, catalogOf, handed, listing,
                   fnVars>>

\* SellerCreateStocks with the ValueError swallowed: the run goes on with
\* an empty stocks payload
SellerCreateStocks_Swallow ==
    /\ prog = "seller" /\ pc = "create_stocks"
    /\ LET r == seller_create_stocks(watch_remnants, offer_ids)
       IN /\ offer_ids' = r.offer_ids
          /\ stocks' = r.out
          /\ k' = 1
          /\ pc' = IF r.out = <<>> THEN "create_prices" ELSE "update_stocks"
          /\ UNCHANGED outcome
    /\ UNCHANGED <<prog, channel, server, watch_remnants, cursor, product_list,
                   prices, calls, pending, catalogOf, handed, listing,
                   fnVars>>

\* stocks = create_stocks(watch_remnants, offer_ids) and list(divide(stocks, 100))
SellerCreateStocks ==
    /\ prog = "seller" /\ pc = "create_stocks"
    /\ LET r == seller_create_stocks(watch_remnants, offer_ids)
       IN /\ offer_ids' = r.offer_ids
          /\ IF r.err # "none"
             THEN /\ outcome' = Handle(r.err)
                  /\ pc' = "end"
                  /\ UNCHANGED <<stocks, k>>
             ELSE /\ stocks' = r.out
                  /\ k' = 1
                  /\ pc' = IF r.out = <<>> THEN "create_prices" ELSE "update_stocks"
                  /\ UNCHANGED outcome
    /\ UNCHANGED <<prog, channel, server, watch_remnants, cursor, product_list,
                   prices, calls, pending, catalogOf, handed, listing,
                   fnVars>>

\* SellerUpdateStocks leaving the loop after its first call
SellerUpdateStocks_Break ==
    /\ prog = "seller" /\ pc = "update_stocks"
    /\ \/ \E e \in HttpErrors :
             /\ calls' = Append(calls, [ep |-> "stocks", channel |-> channel,
                                        payload |-> StockChunks[k], ok |-> FALSE])
             /\ outcome' = Handle(e)
             /\ pc' = "end"
             /\ UNCHANGED k
       \/ /\ calls' = Append(calls, [ep |-> "stocks", channel |-> channel,
                                     payload |-> StockChunks[k], ok |-> TRUE])
          /\ k' = k + 1
          /\ pc' = "create_prices"
          /\ UNCHANGED outcome
    /\ UNCHANGED <<prog, channel, server, watch_remnants, cursor, product_list,
                   offer_ids, stocks, prices, pending, catalogOf, handed, listing,
                   fnVars>>

\* SellerUpdateStocks with a failed call caught inside the loop: the loop
\* goes on with the next chunk
SellerUpdateStocks_Continue ==
    /\ prog = "seller" /\ pc = "update_stocks"
    /\ \E ok \in BOOLEAN :
          calls' = Append(calls, [ep |-> "stocks", channel |-> channel,
                                  payload |-> StockChunks[k], ok |-> ok])
    /\ k' = k + 1
    /\ pc' = IF k = Len(StockChunks) THEN "create_prices" ELSE "update_stocks"
    /\ UNCHANGED outcome
    /\ UNCHANGED <<prog, channel, server, watch_remnants, cursor, product_list,
                   offer_ids, stocks, prices, pending, catalogOf, handed, listing,
                   fnVars>>

\* one pass of the loop over the stock chunks: update_stocks(some_stock, ...)
SellerUpdateStocks ==
    /\ prog = "seller" /\ pc = "update_stocks"
    /\ \/ \E e \in HttpErrors :
             /\ calls' = Append(calls, [ep |-> "stocks", channel |-> channel,
                                        payload |-> StockChunks[k], ok |-> FALSE])
             /\ outcome' = Handle(e)
             /\ pc' = "end"
             /\ UNCHANGED k
       \/ /\ calls' = Append(calls, [ep |-> "stocks", channel |-> channel,
                                     payload |-> StockChunks[k], ok |-> TRUE])
          /\ k' = k + 1
          /\ pc' = IF k = Len(StockChunks) THEN "create_prices" ELSE "update_stocks"
          /\ UNCHANGED outcome
    /\ UNCHANGED <<prog, channel, server, watch_remnants, cursor, product_list,
                   offer_ids, stocks, prices, pending, catalogOf, handed, listing,
                   fnVars>>

\* prices = create_prices(watch_remnants, offer_ids) and list(divide(prices, 900))
SellerCreatePrices ==
    /\ prog = "seller" /\ pc = "create_prices"
    /\ LET r == seller_create_prices(watch_remnants, offer_ids)
       IN /\ handed' = Append(handed, [channel |-> channel, ids |-> offer_ids])
          /\ offer_ids' = r.offer_ids
          /\ prices' = r.out
          /\ k' = 1
          /\ IF r.out = <<>>
             THEN pc' = "end" /\ outcome' = "done"
             ELSE pc' = "update_price" /\ UNCHANGED outcome
    /\ UNCHANGED <<prog, channel, server, watch_remnants, cursor, product_list,
                   stocks, calls, pending, catalogOf, listing,
                   fnVars>>

\* one pass of the loop over the price chunks: update_price(some_price, ...)
SellerUpdatePrice ==
    /\ prog = "seller" /\ pc = "update_price"
    /\ \/ \E e \in HttpErrors :
             /\ calls' = Append(calls, [ep |-> "prices", channel |-> channel,
                                        payload |-> PriceChunks[k], ok |-> FALSE])
             /\ outcome' = Handle(e)
             /\ pc' = "end"
             /\ UNCHANGED k
       \/ /\ calls' = Append(calls, [ep |-> "prices", channel |-> channel,
                                     payload |-> PriceChunks[k], ok |-> TRUE])
          /\ k' = k + 1
          /\ IF k = Len(PriceChunks)
             THEN pc' = "end" /\ outcome' = "done"
             ELSE UNCHANGED <<pc, outcome>>
    /\ UNCHANGED <<prog, channel, server, watch_remnants, cursor, product_list,
                   offer_ids, stocks, prices, pending, catalogOf, handed, listing,
                   fnVars>>

(***************************************************************************)
(* market.main()                                                           *)
(***************************************************************************)
\* watch_remnants = download_stock(), before the try statement
MarketDownloadStock ==
    /\ prog = "market" /\ pc = "download_stock"
    /\ \/ \E e \in HttpErrors :
             /\ outcome' = "escaped"
             /\ pc' = "end"
             /\ UNCHANGED watch_remnants
       \/ /\ watch_remnants' \in SeqsUpTo(MainRecords, MaxInv)
          /\ pc' = "get_offer_ids"
          /\ UNCHANGED outcome
    /\ UNCHANGED <<prog, channel, server, cursor, product_list, offer_ids,
                   stocks, prices, k, calls, pending, catalogOf, handed, listing,
                   fnVars>>

\* one pass of get_offer_ids' loop: a get_product_list call (page token
\* sent, entries and nextPageToken received) and the test `not page`
MarketGetProductList ==
    /\ prog = "market" /\ pc = "get_offer_ids"
    /\ \/ \E e \in HttpErrors :
             /\ listing' = Append(listing, [channel |-> channel, cursor |-> cursor,
                                            ok |-> FALSE])
             /\ outcome' = Handle(e)
             /\ pc' = "end"
             /\ UNCHANGED <<cursor, product_list, offer_ids, catalogOf>>
       \/ LET resp == ListingPage(channel, cursor)
              entries == [j \in 1..Len(resp.items) |->
                             [offer |-> [shopSku |-> resp.items[j]]]]
              list == product_list \o entries
              ids == [j \in 1..Len(list) |-> list[j].offer.shopSku]
          IN /\ listing' = Append(listing, [channel |-> channel, cursor |-> cursor,
                                            ok |-> TRUE, items |-> resp.items,
                                            next |-> resp.next])
             /\ IF resp.next = 0
                THEN /\ offer_ids' = ids
                     /\ catalogOf' = Append(catalogOf, [channel |-> channel, ids |-> ids])
                     /\ pc' = "create_stocks"
                     /\ product_list' = <<>>
                     /\ cursor' = 0
                ELSE /\ product_list' = list
                     /\ cursor' = resp.next
                     /\ UNCHANGED <<offer_ids, catalogOf, pc>>
             /\ UNCHANGED outcome
    /\ UNCHANGED <<prog, channel, server, watch_remnants, stocks, prices, k,
                   calls, pending, handed, fnVars>>

\* stocks = create_stocks(watch_remnants, offer_ids, warehouse_id) and
\* list(divide(stocks, 2000))
MarketCreateStocks ==
    /\ prog = "market" /\ pc = "create_stocks"
    /\ LET r == market_create_stocks(watch_remnants, offer_ids,
                                     WarehouseOf(channel), Now)
       IN /\ offer_ids' = r.offer_ids
          /\ IF r.err # "none"
             THEN /\ outcome' = Handle(r.err)
                  /\ pc' = "end"
                  /\ UNCHANGED <<stocks, k>>
             ELSE /\ stocks' = r.out
                  /\ k' = 1
                  /\ pc' = IF r.out = <<>> THEN "upload_prices" ELSE "update_stocks"
                  /\ UNCHANGED outcome
    /\ UNCHANGED <<prog, channel, server, watch_remnants, cursor, product_list,
                   prices, calls, pending, catalogOf, handed, listing,
                   fnVars>>

\* MarketUpdateStocks under a handler of its own for every channel: a failed
\* call is reported and the run goes on with the next channel
MarketUpdateStocks_NextChannel ==
    /\ prog = "market" /\ pc = "update_stocks"
    /\ \/ \E e \in HttpErrors :
             /\ calls' = Append(calls, [ep |-> "stocks", channel |-> channel,
                                        payload |-> StockChunks[k], ok |-> FALSE])
             /\ outcome' = Handle(e)
             /\ IF channel = "FBS"
                THEN channel' = "DBS" /\ pc' = "get_offer_ids"
                ELSE pc' = "end" /\ UNCHANGED channel
             /\ UNCHANGED k
       \/ /\ calls' = Append(calls, [ep |-> "stocks", channel |-> channel,
                                     payload |-> StockChunks[k], ok |-> TRUE])
          /\ k' = k + 1
          /\ pc' = IF k = Len(StockChunks) THEN "upload_prices" ELSE "update_stocks"
          /\ UNCHANGED <<outcome, channel>>
    /\ UNCHANGED <<prog, server, watch_remnants, cursor, product_list,
                   offer_ids, stocks, prices, pending, catalogOf, handed, listing,
                   fnVars>>

\* one pass of the loop over the stock chunks: update_stocks(some_stock, ...)
MarketUpdateStocks ==
    /\ prog = "market" /\ pc = "update_stocks"
    /\ \/ \E e \in HttpErrors :
             /\ calls' = Append(calls, [ep |-> "stocks", channel |-> channel,
                                        payload |-> StockChunks[k], ok |-> FALSE])
             /\ outcome' = Handle(e)
             /\ pc' = "end"
             /\ UNCHANGED k
       \/ /\ calls' = Append(calls, [ep |-> "stocks", channel |-> channel,
                                     payload |-> StockChunks[k], ok |-> TRUE])
          /\ k' = k + 1
          /\ pc' = IF k = Len(StockChunks) THEN "upload_prices" ELSE "update_stocks"
          /\ UNCHANGED outcome
    /\ UNCHANGED <<prog, channel, server, watch_remnants, cursor, product_list,
                   offer_ids, stocks, prices, pending, catalogOf, handed, listing,
                   fnVars>>

\* upload_prices(watch_remnants, campaign_id, market_token): upload_prices is
\* declared async and the call is not awaited, so the call only creates a
\* coroutine object; its body (get_offer_ids, create_prices, update_price)
\* never runs.  Then the next channel, or the end of the try statement.
MarketUploadPrices ==
    /\ prog = "market" /\ pc = "upload_prices"
    /\ pending' = Append(pending, [coroutine |-> "upload_prices", channel |-> channel])
    /\ IF channel = "FBS"
       THEN /\ channel' = "DBS"
            /\ pc' = "get_offer_ids"
            /\ UNCHANGED outcome
       ELSE /\ pc' = "end"
            /\ outcome' = "done"
            /\ UNCHANGED channel
    /\ UNCHANGED <<prog, server, watch_remnants, cursor, product_list, offer_ids,
                   stocks, prices, k, calls, catalogOf, handed, listing,
                   fnVars>>

Next ==
    \/ SellerGetProductList
    \/ SellerDownloadStock
    \/ SellerCreateStocks
    \/ SellerUpdateStocks
    \/ SellerCreatePrices
    \/ SellerUpdatePrice
    \/ MarketDownloadStock
    \/ MarketGetProductList
    \/ MarketCreateStocks
    \/ MarketUpdateStocks
    \/ MarketUploadPrices

Spec == Init /\ [][Next]_vars

\* runs of market.main() alone
InitMarket == Init /\ prog = "market"

NextMarket ==
    \/ MarketDownloadStock
    \/ MarketGetProductList
    \/ MarketCreateStocks
    \/ MarketUpdateStocks
    \/ MarketUploadPrices

SpecMarket == InitMarket /\ [][NextMarket]_vars

(***************************************************************************)
(* Function-level checks: the arguments are drawn, then one function is    *)
(* called on them and its result recorded.                                 *)
(***************************************************************************)
InitFn ==
    /\ MainIdle
    /\ fnRes = [op |-> "none"]
    /\ \/ fnArgs \in [kind : {"reconcile"},
                      watch_remnants : SeqsUpTo(FnRecords, MaxInv),
                      offer_ids : Catalogs]
       \/ fnArgs \in [kind : {"divide"},
                      lst : SeqsUpTo({"a", "b"}, MaxLen),
                      n : (0 - MaxN)..MaxN]

FnSellerCreateStocks ==
    /\ fnArgs.kind = "reconcile" /\ fnRes.op = "none"
    /\ fnRes' = [op |-> "seller.create_stocks",
                 res |-> seller_create_stocks(fnArgs.watch_remnants, fnArgs.offer_ids)]
    /\ UNCHANGED <<fnArgs, mainVars>>

FnMarketCreateStocks ==
    /\ fnArgs.kind = "reconcile" /\ fnRes.op = "none"
    /\ fnRes' = [op |-> "market.create_stocks",
                 res |-> market_create_stocks(fnArgs.watch_remnants, fnArgs.offer_ids,
                                              WarehouseOf("FBS"), Now)]
    /\ UNCHANGED <<fnArgs, mainVars>>

FnSellerCreatePrices ==
    /\ fnArgs.kind = "reconcile" /\ fnRes.op = "none"
    /\ fnRes' = [op |-> "seller.create_prices",
                 res |-> seller_create_prices(fnArgs.watch_remnants, fnArgs.offer_ids)]
    /\ UNCHANGED <<fnArgs, mainVars>>

FnMarketCreatePrices ==
    /\ fnArgs.kind = "reconcile" /\ fnRes.op = "none"
    /\ fnRes' = [op |-> "market.create_prices",
                 res |-> market_create_prices(fnArgs.watch_remnants, fnArgs.offer_ids)]
    /\ UNCHANGED <<fnArgs, mainVars>>

\* list(divide(lst, n))
FnDivide ==
    /\ fnArgs.kind = "divide" /\ fnRes.op = "none"
    /\ fnRes' = [op |-> "divide", res |-> divide(fnArgs.lst, fnArgs.n)]
    /\ UNCHANGED <<fnArgs, mainVars>>

NextFn ==
    \/ FnSellerCreateStocks
    \/ FnMarketCreateStocks
    \/ FnSellerCreatePrices
    \/ FnMarketCreatePrices
    \/ FnDivide

SpecFn == InitFn /\ [][NextFn]_vars

(***************************************************************************)
(* Properties.  The definitions below restate the expected results on      *)
(* their own terms (counting, selecting, slicing), apart from the loops    *)
(* above.                                                                  *)
(***************************************************************************)
NoDuplicates(lst) == \A i, j \in 1..Len(lst) : lst[i] = lst[j] => i = j

Elems(lst) == {lst[i] : i \in 1..Len(lst)}

Codes(remnants) == [i \in 1..Len(remnants) |-> remnants[i].Kod]

\* identifier of a stock entry of either shape
StockIdOf(op, e) == IF op = "seller.create_stocks" THEN e.offer_id ELSE e.sku

\* stock count of a stock entry of either shape
StockCountOf(op, e) == IF op = "seller.create_stocks" THEN e.stock ELSE e.items[1].count

\* identifier of a price entry of either shape
PriceIdOf(op, e) == IF op = "seller.create_prices" THEN e.offer_id ELSE e.id

StocksReturned ==
    /\ fnRes.op \in {"seller.create_stocks", "market.create_stocks"}
    /\ fnRes.res.err = "none"

PricesReturned ==
    /\ fnRes.op \in {"seller.create_prices", "market.create_prices"}
    /\ fnRes.res.err = "none"

\* record i is scanned while its code is still in the working list: the list
\* holds the code more often than the records before i have taken it out
Consumed(remnants, ids, i) ==
    Count(ids, remnants[i].Kod) > Count(Codes(SubSeq(remnants, 1, i - 1)), remnants[i].Kod)

\* the indexes of the consumed records, in inventory order
RECURSIVE ConsumedFrom(_, _, _)
ConsumedFrom(remnants, ids, i) ==
    IF i > Len(remnants) THEN <<>>
    ELSE (IF Consumed(remnants, ids, i) THEN <<i>> ELSE <<>>)
         \o ConsumedFrom(remnants, ids, i + 1)

\* the integer a quantity text of QtyTexts denotes
DenotedInt(q) ==
    CASE q = <<"0">> -> 0
      [] q = <<"1">> -> 1
      [] q = <<"1", "0">> -> 10
      [] q = <<"-", "3">> -> 0 - 3

\* a quantity text that is neither ">10" nor an integer
Malformed(q) == q \notin {<<">", "1", "0">>, <<"0">>, <<"1">>, <<"1", "0">>, <<"-", "3">>}

ExpectedStock(q) ==
    IF q = <<">", "1", "0">> THEN 100
    ELSE IF q = <<"1">> THEN 0
    ELSE DenotedInt(q)

\* C1: when create_stocks (either variant) returns for a duplicate-free list
\* of known offer ids, every known offer id is the identifier of exactly one
\* stock entry and no entry carries an identifier outside that list.
C1_StocksCoverCatalogOnce ==
    (StocksReturned /\ NoDuplicates(fnArgs.offer_ids)) =>
        LET out == fnRes.res.out
        IN /\ \A id \in Elems(fnArgs.offer_ids) :
                  Cardinality({j \in 1..Len(out) : StockIdOf(fnRes.op, out[j]) = id}) = 1
           /\ \A j \in 1..Len(out) :
                  StockIdOf(fnRes.op, out[j]) \in Elems(fnArgs.offer_ids)

\* the feed names A1 twice and B2 is absent from it: one entry each
C1_Witness ==
    /\ StocksReturned
    /\ fnRes.op = "market.create_stocks"
    /\ fnArgs.offer_ids = <<"A1", "B2">>
    /\ Codes(fnArgs.watch_remnants) = <<"A1", "A1">>
    /\ Len(fnRes.res.out) = 2

\* C4: the entry create_stocks emits for a consumed inventory record carries
\* 100 for the quantity ">10", 0 for "1", and otherwise the integer the
\* quantity denotes.
C4_ResolvedStock ==
    StocksReturned =>
        LET idx == ConsumedFrom(fnArgs.watch_remnants, fnArgs.offer_ids, 1)
            out == fnRes.res.out
        IN /\ Len(out) >= Len(idx)
           /\ \A j \in 1..Len(idx) :
                  /\ StockIdOf(fnRes.op, out[j]) = fnArgs.watch_remnants[idx[j]].Kod
                  /\ StockCountOf(fnRes.op, out[j])
                         = ExpectedStock(fnArgs.watch_remnants[idx[j]].Kolichestvo)

C4_Witness ==
    /\ StocksReturned
    /\ fnRes.op = "seller.create_stocks"
    /\ fnArgs.offer_ids = <<"A1", "B2">>
    /\ Codes(fnArgs.watch_remnants) = <<"B2", "A1">>
    /\ fnArgs.watch_remnants[1].Kolichestvo = <<"1">>
    /\ fnArgs.watch_remnants[2].Kolichestvo = <<"1", "0">>
    /\ fnRes.res.out[1].stock = 0
    /\ fnRes.res.out[2].stock = 10

\* C6: create_prices (either variant), when it returns, gives one entry per
\* inventory record whose code is in the offer-id list, in inventory order,
\* none for an offer id no record matches, and leaves the list as it was.
C6_PricesOnlyForMatches ==
    PricesReturned =>
        LET out == fnRes.res.out
            Known(c) == c \in Elems(fnArgs.offer_ids)
        IN /\ [j \in 1..Len(out) |-> PriceIdOf(fnRes.op, out[j])]
                  = SelectSeq(Codes(fnArgs.watch_remnants), Known)
           /\ fnRes.res.offer_ids = fnArgs.offer_ids

\* both records of the feed name A1; B2 is known and has no record
C6_Witness ==
    /\ PricesReturned
    /\ fnRes.op = "seller.create_prices"
    /\ fnArgs.offer_ids = <<"A1", "B2">>
    /\ Codes(fnArgs.watch_remnants) = <<"A1", "A1">>
    /\ Len(fnRes.res.out) = 2

\* C7: for a chunk size n > 0 the chunks of divide concatenate back to the
\* list, every chunk but the last has length n, the last has length L mod n
\* (n when that is 0), no chunk is empty, and an empty list gives no chunk.
C7_DivideChunks ==
    (fnRes.op = "divide" /\ fnArgs.n > 0) =>
        LET out == fnRes.res.out
            L == Len(fnArgs.lst)
            n == fnArgs.n
        IN /\ fnRes.res.err = "none"
           /\ Flatten(out) = fnArgs.lst
           /\ \A j \in 1..(Len(out) - 1) : Len(out[j]) = n
           /\ out # <<>> => Len(out[Len(out)]) = (IF L % n = 0 THEN n ELSE L % n)
           /\ \A j \in 1..Len(out) : out[j] # <<>>
           /\ L = 0 => out = <<>>

C7_Witness ==
    /\ fnRes.op = "divide"
    /\ fnArgs.n = 2
    /\ fnArgs.lst = <<"a", "b", "a">>
    /\ Len(fnRes.res.out) = 2
    /\ Len(fnRes.res.out[2]) = 1

\* C8: for a chunk size n <= 0, consuming divide(lst, n) fails with an error.
C8_NonPositiveSizeFails ==
    (fnRes.op = "divide" /\ fnArgs.n <= 0) => fnRes.res.err # "none"

(***************************************************************************)
(* Properties of runs of main().                                           *)
(***************************************************************************)
\* the calls of endpoint ep issued for channel c, in the order issued
CallsTo(ep, c) ==
    LET Is(x) == x.ep = ep /\ x.channel = c
    IN SelectSeq(calls, Is)

Ceil(L, n) == (L + n - 1) \div n

\* the j-th contiguous slice of n items of a payload
NthSlice(payload, n, j) == SubSeq(payload, (j - 1) * n + 1, Min(j * n, Len(payload)))

\* the catalog get_offer_ids returned for channel c
Fetched(c) == {x \in Elems(catalogOf) : x.channel = c}

Messages == {"timeout_message", "connection_message", "ERROR_2"}

\* C2: the list handed to the price reconciler is the complete catalog as
\* fetched for that channel.
C2_PricesGetFullCatalog ==
    \A h \in Elems(handed) : \E x \in Fetched(h.channel) : h.ids = x.ids

\* C3: in a run that ends without a failure, for every channel the
\* price-update endpoint has been called once for every chunk of the
\* channel's price payload (an entry for each inventory record whose code is
\* in the channel's catalog), after the channel's last stock-update call.
C3_PricesUploadedPerChannel ==
    outcome = "done" =>
        \A x \in Elems(catalogOf) :
            LET Known(c) == c \in Elems(x.ids)
                expected == SelectSeq(Codes(watch_remnants), Known)
                sent == CallsTo("prices", x.channel)
            IN /\ Len(sent) = Ceil(Len(expected), PriceBatch)
               /\ \A j \in 1..Len(sent) :
                      /\ sent[j].ok
                      /\ [i \in 1..Len(sent[j].payload) |->
                             PriceIdOf(prog \o ".create_prices", sent[j].payload[i])]
                            = NthSlice(expected, PriceBatch, j)
               /\ \A i, j \in 1..Len(calls) :
                      (calls[i].channel = x.channel /\ calls[j].channel = x.channel
                       /\ calls[i].ep = "stocks" /\ calls[j].ep = "prices") => i < j

\* some record the stock reconciler consumes has a malformed quantity
ConsumesMalformed(remnants, ids) ==
    \E i \in 1..Len(remnants) :
        Consumed(remnants, ids, i) /\ Malformed(remnants[i].Kolichestvo)

\* some record whose code is a known offer id has a malformed quantity
KnownMalformed(remnants, ids) ==
    \E i \in 1..Len(remnants) :
        remnants[i].Kod \in Elems(ids) /\ Malformed(remnants[i].Kolichestvo)

\* what C5 asks of the run for the catalog entry x of a channel
StocksFailFor(x) ==
    /\ channel = x.channel
    /\ pc \in {"create_stocks", "end"}
    /\ pc = "end" => outcome = "ERROR_2"
    /\ CallsTo("stocks", x.channel) = <<>>
    /\ CallsTo("prices", x.channel) = <<>>

UploadedInOrder(ep, payload, n, count) ==
    /\ count <= Ceil(Len(payload), n)
    /\ Len(CallsTo(ep, channel)) = count
    /\ \A j \in 1..count :
           /\ CallsTo(ep, channel)[j].payload = NthSlice(payload, n, j)
           /\ CallsTo(ep, channel)[j].ok

\* C9: a failure-free batch upload of a payload of length L with batch size n
\* issues ceil(L / n) calls, one per chunk, one after another in chunk order,
\* the k-th carrying the k-th contiguous slice of the payload.
C9_OneCallPerChunkInOrder ==
    /\ pc = "update_stocks" => UploadedInOrder("stocks", stocks, StockBatch, k - 1)
    /\ (pc \in {"create_prices", "update_price", "upload_prices"}
        \/ (pc = "end" /\ outcome = "done"))
          => UploadedInOrder("stocks", stocks, StockBatch, Ceil(Len(stocks), StockBatch))
    /\ pc = "update_price" => UploadedInOrder("prices", prices, PriceBatch, k - 1)
    /\ (prog = "seller" /\ pc = "end" /\ outcome = "done")
          => UploadedInOrder("prices", prices, PriceBatch, Ceil(Len(prices), PriceBatch))

\* three stock entries went out as a call of two and a call of one
C9_Witness ==
    /\ prog = "seller" /\ outcome = "done"
    /\ Len(stocks) = 3
    /\ Len(CallsTo("stocks", "OZON")) = 2
    /\ Len(CallsTo("stocks", "OZON")[1].payload) = 2
    /\ Len(CallsTo("stocks", "OZON")[2].payload) = 1

\* C10: a failed upload call is not retried and no call follows it; the
\* chunks before it stay uploaded.
C10_FailedCallEndsUpload ==
    \A i \in 1..Len(calls) :
        ~calls[i].ok =>
            /\ i = Len(calls)
            /\ pc = "end" /\ outcome \in Messages
            /\ LET mine == CallsTo(calls[i].ep, calls[i].channel)
                   payload == IF calls[i].ep = "stocks" THEN stocks ELSE prices
                   n == IF calls[i].ep = "stocks" THEN StockBatch ELSE PriceBatch
               IN \A j \in 1..Len(mine) :
                      /\ mine[j].payload = NthSlice(payload, n, j)
                      /\ mine[j].ok = (j < Len(mine))

\* the second stock chunk failed after the first went through
C10_Witness ==
    /\ Len(CallsTo("stocks", channel)) = 2
    /\ CallsTo("stocks", channel)[1].ok
    /\ ~CallsTo("stocks", channel)[2].ok
    /\ pc = "end"

\* the listing calls issued for channel c, in the order they were made
ListingsOf(c) ==
    LET Is(x) == x.channel = c
    IN SelectSeq(listing, Is)

\* the items of the first n answers for channel c, page after page
PagesOf(c, n) == Flatten([i \in 1..n |-> ListingsOf(c)[i].items])

\* the stop condition of channel c's fetcher after its j-th answer:
\* Ozon's total equals the number of items accumulated, Yandex.Market's
\* next-page token is absent
StopHolds(c, j) ==
    LET r == ListingsOf(c)[j]
    IN /\ r.ok
       /\ IF c = "OZON" THEN r.total = Len(PagesOf(c, j)) ELSE r.next = 0

\* C11: a catalog fetch sends an empty cursor first and then the cursor of
\* the previous answer, calls again exactly while the stop condition does not
\* hold, and when it holds returns the offer ids of all pages received, in
\* page order.
C11_FetchFollowsCursor ==
    \A c \in ChannelSet(prog) :
        LET L == ListingsOf(c)
        IN /\ L # <<>> => L[1].cursor = 0
           /\ \A j \in 2..Len(L) :
                  /\ L[j-1].ok
                  /\ ~StopHolds(c, j-1)
                  /\ L[j].cursor = L[j-1].next
           /\ (L # <<>> /\ L[Len(L)].ok) =>
                  IF StopHolds(c, Len(L))
                  THEN /\ Fetched(c) # {}
                       /\ \A x \in Fetched(c) : x.ids = PagesOf(c, Len(L))
                  ELSE /\ Fetched(c) = {}
                       /\ channel = c /\ pc = "get_offer_ids"
           /\ Fetched(c) # {} => (L # <<>> /\ L[Len(L)].ok)

\* a catalog of three ids came back in two pages, the second asked for with
\* the cursor of the first
C11_Witness ==
    \E c \in ChannelSet(prog) :
        /\ Len(ListingsOf(c)) = 2
        /\ ListingsOf(c)[2].cursor = ListingsOf(c)[1].next
        /\ ListingsOf(c)[2].cursor # 0
        /\ \E x \in Fetched(c) : Len(x.ids) = PageLimit + 1

\* C12: a listing call that fails, on the first page or a later one, fails
\* the channel's fetch as a whole: no catalog is returned from the pages
\* already received, nothing is reconciled from them and no stock-update or
\* price-update call is issued for that channel; the run ends with a message.
C12_FailedListingFailsFetch ==
    \A i \in 1..Len(listing) :
        ~listing[i].ok =>
            LET c == listing[i].channel
            IN /\ i = Len(listing)
               /\ Fetched(c) = {}
               /\ \A x \in Elems(handed) : x.channel # c
               /\ CallsTo("stocks", c) = <<>>
               /\ CallsTo("prices", c) = <<>>
               /\ pc = "end" /\ outcome \in Messages

\* the second listing call of a channel failed after a first page of items
\* had been received
C12_Witness ==
    \E i \in 1..Len(listing) :
        /\ ~listing[i].ok
        /\ listing[i].cursor # 0
        /\ Len(ListingsOf(listing[i].channel)) = 2
        /\ Len(product_list) = PageLimit
        /\ pc = "end"

\* the place of channel c in the order main() goes through the channels
PlaceOf(c) == CHOOSE i \in 1..Len(ChannelsOf(prog)) : ChannelsOf(prog)[i] = c

\* the channels main() goes through after channel c
After(c) == {d \in ChannelSet(prog) : PlaceOf(d) > PlaceOf(c)}

\* no listing call and no update call of a channel comes after one of a
\* later channel
Sequential ==
    /\ \A i, j \in 1..Len(listing) :
           i < j => PlaceOf(listing[i].channel) <= PlaceOf(listing[j].channel)
    /\ \A i, j \in 1..Len(calls) :
           i < j => PlaceOf(calls[i].channel) <= PlaceOf(calls[j].channel)

\* nothing has been done for channel d
Untouched(d) ==
    /\ ListingsOf(d) = <<>>
    /\ Fetched(d) = {}
    /\ CallsTo("stocks", d) = <<>>
    /\ CallsTo("prices", d) = <<>>

C14_NoExceptionEscapes ==
    /\ outcome # "escaped"
    /\ \A i \in 1..Len(listing) :
           ~listing[i].ok => (outcome \in Messages /\ pc = "end")
    /\ \A i \in 1..Len(calls) :
           ~calls[i].ok => (outcome \in Messages /\ pc = "end")
    /\ pc = "end" => outcome \in Messages \cup {"done"}

\* record i of the inventory is the first to carry its code, record j a
\* later one with the same code, and the code is in the offer-id list
FirstAndLater(i, j) ==
    LET rem == fnArgs.watch_remnants
    IN /\ i < j
       /\ rem[i].Kod = rem[j].Kod
       /\ rem[i].Kod \in Elems(fnArgs.offer_ids)
       /\ \A h \in 1..(i - 1) : rem[h].Kod # rem[i].Kod

\* the output has exactly one entry for the code of record i, with the stock
\* of record i
OnlyFirstEmitted(i) ==
    LET rem == fnArgs.watch_remnants
        out == fnRes.res.out
        mine == {n \in 1..Len(out) : StockIdOf(fnRes.op, out[n]) = rem[i].Kod}
    IN /\ Cardinality(mine) = 1
       /\ \A n \in mine :
              StockCountOf(fnRes.op, out[n]) = ExpectedStock(rem[i].Kolichestvo)

\* C15 as stated: stock matching is first-match-wins.  When two inventory
\* records carry the same known code, create_stocks (either variant), when it
\* returns, gives an entry only for the first of them, with its quantity.
C15_OnlyFirstOccurrence ==
    StocksReturned =>
        \A i, j \in 1..Len(fnArgs.watch_remnants) :
            FirstAndLater(i, j) => OnlyFirstEmitted(i)

\* C15, amended: the same, for a code the offer-id list holds once
\* (offer_ids.remove takes one occurrence of the code out of the list).
C15_FirstMatchWins ==
    StocksReturned =>
        \A i, j \in 1..Len(fnArgs.watch_remnants) :
            ( /\ FirstAndLater(i, j)
              /\ Count(fnArgs.offer_ids, fnArgs.watch_remnants[i].Kod) = 1 ) =>
                OnlyFirstEmitted(i)

\* the feed names A1 twice, with ">10" and then a quantity that is no number:
\* the call returns A1 with 100 and B2 with 0, nothing for the second record
C15_Witness ==
    /\ StocksReturned
    /\ fnRes.op = "market.create_stocks"
    /\ fnArgs.offer_ids = <<"A1", "B2">>
    /\ Codes(fnArgs.watch_remnants) = <<"A1", "A1">>
    /\ fnArgs.watch_remnants[1].Kolichestvo = <<">", "1", "0">>
    /\ fnArgs.watch_remnants[2].Kolichestvo = <<"x">>
    /\ Len(fnRes.res.out) = 2
    /\ fnRes.res.out[1].sku = "A1"
    /\ fnRes.res.out[1].items[1].count = 100

=============================================================================
